---- MODULE Spec2Model ----
(***************************************************************************)
(* Instance lifecycle of the Asterisk manager.                             *)
(*                                                                         *)
(* The repository holds two revisions of the same handlers: the monolith   *)
(* src/main.py and the router modules under src/routes/.  Both bind to the *)
(* table "asterisk_instances", to the directory tree ./asterisk_configs/   *)
(* and to ./docker-compose/, so the model keeps one store, one filesystem  *)
(* and one container runtime and gives each revision's create handler its  *)
(* own action.  update_instance, delete_instance and get_instance are      *)
(* textually the same in both revisions and are modelled once.             *)
(*                                                                         *)
(* A handler is one atomic step: the request handlers contain no await and *)
(* the background start runs after the response has been produced.  Each   *)
(* handler is an operator from the current state, the request and the      *)
(* outcome of every call to an external collaborator (filesystem, database *)
(* commit, docker-compose) to a reply: the answer given to the caller      *)
(* together with the state the handler leaves.  The actions apply a reply. *)
(***************************************************************************)
EXTENDS Naturals, Integers, Sequences, FiniteSets, TLC

VARIABLES
    instances,   \* rows of table asterisk_instances
    nextId,      \* next value of the autoincrement primary key
    sip_users,   \* rows of table sip_users, as (username, instance_name)
    fs,          \* the paths (directories and files) that exist
    containers,  \* names of the instances whose container is up
    tasks,       \* background tasks added to a response and not yet run
    sip_conf,    \* the content of each sip.conf, and of each file written
                 \* through the configuration route, that exists
    inflight     \* the requests served step by step: the step each is at

vars == <<instances, nextId, sip_users, fs, containers, tasks, sip_conf, inflight>>

----------------------------------------------------------------------------
(* Bounds and input domains *)

MaxCreates == 2
MaxFields == 1
MaxInflight == 2

Names == {"pbx1", "pbx2"}
SipPorts == {0, 5060}
HttpPorts == {8088, 8089}
RtpRanges == {<<10000, 10010>>, <<10005, 10015>>}
Ids == 1..MaxCreates

\* SQL NULL in an integer column, kept apart from every port number
Null == 0 - 1

----------------------------------------------------------------------------
(* Paths *)

IsPrefix(p, q) == Len(p) <= Len(q) /\ SubSeq(q, 1, Len(p)) = p

rmtree(tree, p) == {q \in tree : ~IsPrefix(p, q)}

exists(tree, p) == p \in tree

config_dir(name) == <<"asterisk_configs", name>>

compose_path(name) == <<"docker-compose", "asterisk-", name>>

compose_file(name) == <<"docker-compose", "docker-compose-", name, ".yml">>

----------------------------------------------------------------------------
(* Request schemas *)

\* The fields a validated create request body carries (extra keys are dropped).
AsteriskInstanceCreate == {"name", "sip_port", "http_port"}

\* instance.<field>: reading a field the schema lacks raises AttributeError
HasAttr(schema, field) == field \in schema

----------------------------------------------------------------------------
(* Tables *)

Row(id, name, sip, http, rs, re, path, status) ==
    [id |-> id, name |-> name, sip_port |-> sip, http_port |-> http,
     rtp_port_start |-> rs, rtp_port_end |-> re,
     config_path |-> path, status |-> status]

\* The unique index on sip_port is missing
IntegrityErrorNoSipIndex(rows, row) ==
    \E r \in rows :
        /\ r.id # row.id
        /\ \/ r.name = row.name
           \/ r.http_port = row.http_port
           \/ row.rtp_port_start # Null /\ r.rtp_port_start = row.rtp_port_start
           \/ row.rtp_port_end # Null /\ r.rtp_port_end = row.rtp_port_end

\* The unique=True columns: a commit that would leave two rows with the same
\* non-NULL value in one of them raises IntegrityError.
IntegrityError(rows, row) ==
    \E r \in rows :
        /\ r.id # row.id
        /\ \/ r.name = row.name
           \/ r.sip_port = row.sip_port
           \/ r.http_port = row.http_port
           \/ (row.rtp_port_start # Null /\ r.rtp_port_start = row.rtp_port_start)
           \/ (row.rtp_port_end # Null /\ r.rtp_port_end = row.rtp_port_end)

\* The filter on the primary key is missing: .first() of the whole table
ByIdUnfiltered(rows, id) == rows

\* db.query(AsteriskInstance).filter(AsteriskInstance.id == instance_id).first()
ById(rows, id) == {r \in rows : r.id = id}

\* The two test users of create_instance; ("username", "instance_name") is
\* unique in table sip_users
SIPUser(username, instance_name, is_active) ==
    [username |-> username, instance_name |-> instance_name, is_active |-> is_active]

\* UniqueConstraint("username", "instance_name"): the pair is a key of the
\* table, and stands for the primary key of the row in the requests
UserKey(u) == <<u.username, u.instance_name>>

\* The second test user is missing
SeedUsersOne(name) == {SIPUser("1001", name, TRUE)}

SeedUsers(name) == {SIPUser(u, name, TRUE) : u \in {"1001", "1002"}}

Task(rev, row) ==
    [rev |-> rev, id |-> row.id, name |-> row.name, config_path |-> row.config_path]

----------------------------------------------------------------------------
(* State and replies *)

Here ==
    [instances |-> instances, nextId |-> nextId, sip_users |-> sip_users,
     fs |-> fs, containers |-> containers, tasks |-> tasks, sip_conf |-> sip_conf]

\* The answer of a handler (code 0: a background task, which answers nobody),
\* the row in its body (<<>>: none), the external calls that failed on its
\* way, and the state it leaves.
Reply(code, detail, body, faults, st) ==
    [code |-> code, detail |-> detail, body |-> body, faults |-> faults, st |-> st]

\* The stores, the file tree and the runtime become what `st` says
Become(st) ==
    /\ instances' = st.instances
    /\ nextId' = st.nextId
    /\ sip_users' = st.sip_users
    /\ fs' = st.fs
    /\ containers' = st.containers
    /\ tasks' = st.tasks
    /\ sip_conf' = st.sip_conf

\* A handler that runs from its first line to its answer in one step
Apply(reply) == Become(reply.st) /\ inflight' = inflight

Init ==
    /\ instances = {}
    /\ nextId = 1
    /\ sip_users = {}
    /\ fs = {}
    /\ containers = {}
    /\ tasks = {}
    /\ sip_conf = <<>>
    /\ inflight = {}

----------------------------------------------------------------------------
(* create_default_configs *)

MainConfigs ==
    << <<"asterisk.conf">>, <<"logger.conf">>, <<"modules.conf">>, <<"sip.conf">>,
       <<"extensions.conf">>, <<"http.conf">>, <<"rtp.conf">>, <<"stasis.conf">>,
       <<"cdr.conf">>, <<"cdr_mysql.conf">> >>

RoutesConfigs ==
    << <<"asterisk.conf">>, <<"logger.conf">>, <<"modules.conf">>, <<"pjsip.conf">>,
       <<"extensions.conf">>, <<"http.conf">>, <<"rtp.conf">>, <<"stasis.conf">>,
       <<"cdr.conf">>, <<"drivers", "odbc.ini">>, <<"drivers", "odbcinst.ini">>,
       <<"res_odbc.conf">>, <<"cdr_adaptive_odbc.conf">> >>

\* The last file of the set is never written
WriteConfigsButLast(tree, dir, configs, failAt) ==
    LET n == IF failAt = 0 THEN Len(configs) - 1 ELSE failAt - 1
    IN  tree \cup {dir \o configs[i] : i \in 1..n}

\* The files of `configs` written below `dir`, in order, when the open() of
\* file number failAt raises (failAt = 0: none raises).
WriteConfigs(tree, dir, configs, failAt) ==
    LET n == IF failAt = 0 THEN Len(configs) ELSE failAt - 1
    IN  tree \cup {dir \o configs[i] : i \in 1..n}

ArtifactSet(dir, configs) == {dir \o configs[i] : i \in 1..Len(configs)}

\* The content of a sip.conf: the port of its [general] section and the
\* names of its user sections, in the order they are written
SipConf(bindport, sections) == [bindport |-> bindport, sections |-> sections]

\* "sip.conf" of create_default_configs: two fixed sections
DefaultSipConf(sip) == SipConf(sip, <<"6001", "6002">>)

sip_conf_path(dir) == dir \o <<"sip.conf">>

\* The file is opened in append mode
WriteFileAppend(conf, path, content) ==
    [q \in DOMAIN conf \cup {path} |->
        IF q # path THEN conf[q]
        ELSE IF path \in DOMAIN conf THEN conf[path] \o content.sections
        ELSE content.sections]

\* open(path, "w").write(content): the file holds the sections of `content`,
\* whatever it held.  The state keeps the sections of a file; the port of its
\* preamble is the port of the instance at the time of the write and is kept
\* in the reply of the handler that writes.
WriteFile(conf, path, content) ==
    [q \in DOMAIN conf \cup {path} |->
        IF q = path THEN content.sections ELSE conf[q]]

\* The contents left once the tree has become `tree`
Sync(conf, tree) == [q \in DOMAIN conf \cap tree |-> conf[q]]

\* The contents after create_default_configs has written what WriteConfigs says
WriteSipConf(conf, dir, configs, failAt, sip) ==
    IF sip_conf_path(dir) \in WriteConfigs({}, dir, configs, failAt)
    THEN WriteFile(conf, sip_conf_path(dir), DefaultSipConf(sip))
    ELSE conf

----------------------------------------------------------------------------
(* POST /instances/ of main.py *)

\* The external calls of a create that may raise, in the order they are made
CreateFaults == {"none", "makedirs", "write", "commit", "seed_commit"}

\* The file whose open() raises: the first or the last of the set
FailAts(fault, configs) == IF fault = "write" THEN {1, Len(configs)} ELSE {0}

\* .filter(AsteriskInstance.name == instance.name).first()
NameTaken(name) == \E r \in instances : r.name = name

\* .filter((sip_port == instance.sip_port) | (http_port == instance.http_port))
PortsInUseMain(sip, http) ==
    \E r \in instances : r.sip_port = sip \/ r.http_port = http

\* The handler from os.makedirs on; `configs` is the revision's file set,
\* `made` the directories it creates first, `rev` names its start function.
Provision(row, made, configs, rev, create_test_users, fault, failAt) ==
    LET dir == row.config_path
        written == WriteConfigs(fs \cup made, dir, configs, failAt)
        contents == WriteSipConf(sip_conf, dir, configs, failAt, row.sip_port)
        cleaned == rmtree(written, dir)
        stored == [Here EXCEPT !.instances = instances \cup {row},
                               !.nextId = nextId + 1]
    IN
    IF fault = "makedirs" THEN
        \* os.makedirs raises outside the try block
        Reply(500, "Internal Server Error", <<>>, {fault}, Here)
    ELSE IF fault = "write" \/ fault = "commit" \/ IntegrityError(instances, row) THEN
        \* except Exception: rmtree(config_dir), HTTP 500
        Reply(500, "Failed to create instance", <<>>,
              IF fault = "write" THEN {fault} ELSE {"commit"},
              [Here EXCEPT !.fs = cleaned, !.sip_conf = Sync(contents, cleaned)])
    ELSE IF create_test_users
            /\ \/ fault = "seed_commit"
               \/ \E u \in sip_users, v \in SeedUsers(row.name) : UserKey(u) = UserKey(v)
       THEN
        \* the second commit raises after the row is stored: the except block
        \* removes the directory, and the raised HTTPException drops the
        \* background task
        Reply(500, "Failed to create instance", <<>>, {"seed_commit"},
              [stored EXCEPT !.fs = cleaned, !.sip_conf = Sync(contents, cleaned)])
    ELSE
        Reply(200, "", row, {},
              [stored EXCEPT
                 !.fs = written,
                 !.sip_conf = contents,
                 !.sip_users = IF create_test_users
                               THEN sip_users \cup SeedUsers(row.name) ELSE sip_users,
                 !.tasks = tasks \cup {Task(rev, row)}])

create_instance_main(name, sip, http, create_test_users, fault, failAt) ==
    LET dir == config_dir(name)
        row == Row(nextId, name, sip, http, Null, Null, dir, "creating")
    IN
    IF NameTaken(name) THEN
        Reply(400, "Instance name already exists", <<>>, {}, Here)
    ELSE IF PortsInUseMain(sip, http) THEN
        Reply(400, "Ports already in use", <<>>, {}, Here)
    ELSE Provision(row, {dir}, MainConfigs, "main", create_test_users, fault, failAt)

----------------------------------------------------------------------------
(* POST /instances/ of main.py, step by step: the two lookups, the files,
   the commit.  Between two steps of a request another request may run. *)

\* The two conflict lookups: the code answered at once, or 0 when the
\* request goes on
create_instance_validate(st, name, sip, http) ==
    IF \E r \in st.instances : r.name = name THEN 400
    ELSE IF \E r \in st.instances : r.sip_port = sip \/ r.http_port = http THEN 400
    ELSE 0

\* A create that has passed the lookups
Creating(n, name, sip, http, create_test_users) ==
    [op |-> "create", n |-> n, pc |-> "validated", code |-> 0,
     name |-> name, sip_port |-> sip, http_port |-> http,
     create_test_users |-> create_test_users]

\* os.makedirs(config_dir, exist_ok=True) and create_default_configs: code 0
\* when the request goes on to its commit
create_instance_write(st, req, fault, failAt) ==
    LET dir == config_dir(req.name)
        written == WriteConfigs(st.fs \cup {dir}, dir, MainConfigs, failAt)
        contents == WriteSipConf(st.sip_conf, dir, MainConfigs, failAt, req.sip_port)
        cleaned == rmtree(written, dir)
    IN
    IF fault = "makedirs" THEN
        Reply(500, "Internal Server Error", <<>>, {fault}, st)
    ELSE IF fault = "write" THEN
        Reply(500, "Failed to create instance", <<>>, {fault},
              [st EXCEPT !.fs = cleaned, !.sip_conf = Sync(contents, cleaned)])
    ELSE
        Reply(0, "", <<>>, {}, [st EXCEPT !.fs = written, !.sip_conf = contents])

\* db.add, db.commit, add_task, the test users, return; an exception of
\* either commit runs the except block: rmtree(config_dir), HTTP 500
create_instance_commit(st, req, fault) ==
    LET dir == config_dir(req.name)
        row == Row(st.nextId, req.name, req.sip_port, req.http_port, Null, Null,
                   dir, "creating")
        cleaned == rmtree(st.fs, dir)
        stored == [st EXCEPT !.instances = @ \cup {row}, !.nextId = @ + 1]
    IN
    IF fault = "commit" \/ IntegrityError(st.instances, row) THEN
        Reply(500, "Failed to create instance", <<>>, {"commit"},
              [st EXCEPT !.fs = cleaned, !.sip_conf = Sync(@, cleaned)])
    ELSE IF req.create_test_users
            /\ \/ fault = "seed_commit"
               \/ \E u \in st.sip_users, v \in SeedUsers(req.name) : UserKey(u) = UserKey(v)
       THEN
        Reply(500, "Failed to create instance", <<>>, {"seed_commit"},
              [stored EXCEPT !.fs = cleaned, !.sip_conf = Sync(@, cleaned)])
    ELSE
        Reply(200, "", row, {},
              [stored EXCEPT
                 !.sip_users = IF req.create_test_users
                               THEN @ \cup SeedUsers(req.name) ELSE @,
                 !.tasks = @ \cup {Task("main", row)}])

----------------------------------------------------------------------------
(* POST /instances of routes/instances/instancesCRUD.py *)

\* The four equality tests of the port filter
PortsInUse(sip, http, rs, re) ==
    \E r \in instances :
        \/ r.sip_port = sip
        \/ r.http_port = http
        \/ r.rtp_port_start = rs
        \/ r.rtp_port_end = re

\* The handler once the request has passed the two conflict tests
ProvisionRoutes(name, sip, http, rs, re, create_test_users, fault, failAt) ==
    LET dir == config_dir(name)
        row == Row(nextId, name, sip, http, rs, re, dir, "creating")
    IN  Provision(row, {dir, dir \o <<"drivers">>}, RoutesConfigs, "routes",
                  create_test_users, fault, failAt)

create_instance(name, sip, http, rs, re, create_test_users, fault, failAt) ==
    IF NameTaken(name) THEN
        Reply(400, "Instance name already exists", <<>>, {}, Here)
    ELSE IF ~ (HasAttr(AsteriskInstanceCreate, "rtp_port_start")
               /\ HasAttr(AsteriskInstanceCreate, "rtp_port_end")) THEN
        \* building the port filter reads instance.rtp_port_start: the
        \* AttributeError leaves the handler before anything has been touched
        Reply(500, "Internal Server Error", <<>>, {}, Here)
    ELSE IF PortsInUse(sip, http, rs, re) THEN
        Reply(400, "Ports already in use", <<>>, {}, Here)
    ELSE ProvisionRoutes(name, sip, http, rs, re, create_test_users, fault, failAt)

----------------------------------------------------------------------------
(* Background task: start_asterisk_container *)

StartFaults == {"none", "makedirs"}
RunOutcomes == {"ok", "nonzero", "timeout", "error"}

\* instance.status = value; db.commit(): an UPDATE of the row with the task's
\* primary key
SetStatus(rows, id, value) ==
    {IF r.id = id THEN [r EXCEPT !.status = value] ELSE r : r \in rows}

\* The comparison of the return code is inverted
StartStatusInverted(run) == IF run # "ok" THEN "running" ELSE "error"

\* if result.returncode == 0: "running" else: "error"
StartStatus(run) == IF run = "ok" THEN "running" ELSE "error"

\* The compose file names no container: every start runs a container of
\* its own beside the ones that run
LaunchUnnamed(t, composed, fault, run) ==
    LET taken == [Here EXCEPT !.tasks = tasks \ {t}]
        up == [taken EXCEPT
                 !.fs = composed,
                 !.containers = IF run = "ok"
                                THEN containers \cup {t.name \o "-" \o ToString(t.id)}
                                ELSE containers]
        status == StartStatus(run)
    IN
    IF fault = "makedirs" THEN Reply(0, "raised", <<>>, {fault}, taken)
    ELSE IF ~ exists(fs, t.config_path) THEN
        Reply(0, "raised", <<>>, {"listdir"}, [taken EXCEPT !.fs = composed])
    ELSE IF run \in {"timeout", "error"} THEN
        Reply(0, "raised", <<>>, {run}, [taken EXCEPT !.fs = composed])
    ELSE IF ById(instances, t.id) = {} THEN
        Reply(0, "raised", <<>>, {"stale"}, up)
    ELSE
        Reply(0, status, <<>>, IF run = "ok" THEN {} ELSE {run},
              [up EXCEPT !.instances = SetStatus(instances, t.id, status)])

\* The start function from os.makedirs on; `composed` is the tree once the
\* compose file of the revision is written.  An exception ends the task
\* ("raised"): no status is written.
Launch(t, composed, fault, run) ==
    LET taken == [Here EXCEPT !.tasks = tasks \ {t}]
        up == [taken EXCEPT
                 !.fs = composed,
                 !.containers = IF run = "ok" THEN containers \cup {t.name}
                                ELSE containers]
        status == StartStatus(run)
    IN
    IF fault = "makedirs" THEN Reply(0, "raised", <<>>, {fault}, taken)
    ELSE IF ~ exists(fs, t.config_path) THEN
        Reply(0, "raised", <<>>, {"listdir"}, [taken EXCEPT !.fs = composed])
    ELSE IF run \in {"timeout", "error"} THEN
        Reply(0, "raised", <<>>, {run}, [taken EXCEPT !.fs = composed])
    ELSE IF ById(instances, t.id) = {} THEN
        \* the row is gone: the UPDATE matches nothing (StaleDataError)
        Reply(0, "raised", <<>>, {"stale"}, up)
    ELSE
        Reply(0, status, <<>>, IF run = "ok" THEN {} ELSE {run},
              [up EXCEPT !.instances = SetStatus(instances, t.id, status)])

\* main.py: one directory ./docker-compose/asterisk-<name>/ per instance,
\* "docker-compose up -d" run inside it
start_asterisk_container_main(t, fault, run) ==
    LET dir == compose_path(t.name)
    IN  Launch(t, fs \cup {dir, dir \o <<"docker-compose.yml">>}, fault, run)

\* routes/instances/instancesCRUD.py: one file
\* ./docker-compose/docker-compose-<name>.yml, "docker compose -f <file> up -d"
start_asterisk_container(t, fault, run) ==
    Launch(t, fs \cup {<<"docker-compose">>, compose_file(t.name)}, fault, run)

\* background_tasks.add_task(start_asterisk_container, db_instance, db): each
\* revision's create schedules the start function of its own module
run_background_task(t, fault, run) ==
    IF t.rev = "main"
    THEN start_asterisk_container_main(t, fault, run)
    ELSE start_asterisk_container(t, fault, run)

----------------------------------------------------------------------------
(* GET /instances/{instance_id} *)

get_instance(rows, id) ==
    IF ById(rows, id) = {}
    THEN [code |-> 404, detail |-> "Instance not found", body |-> <<>>]
    ELSE [code |-> 200, detail |-> "", body |-> CHOOSE x \in ById(rows, id) : TRUE]

----------------------------------------------------------------------------
(* DELETE /instances/{instance_id} *)

DownOutcomes == {"ok", "nonzero", "timeout", "error"}
RmOutcomes == {"ok", "error"}
CommitOutcomes == {"ok", "error"}

\* subprocess.run(..., check=True): a non-zero exit raises as well
StopAbortsChecked == {"nonzero", "timeout", "error"}

\* The outcomes of "docker-compose down" that leave the try block: the two
\* except clauses answer 500 after a rollback.  A non-zero exit is printed.
StopAborts == {"timeout", "error"}

delete_instance(id, down, rm_config, rm_compose, commit) ==
    IF ById(instances, id) = {} THEN
        Reply(404, "Instance not found", <<>>, {}, Here)
    ELSE
    LET instance == CHOOSE x \in ById(instances, id) : TRUE
        cpath == compose_path(instance.name)
        has_compose == exists(fs, cpath)
        \* shutil.rmtree of the config directory, errors printed only
        fs1 == IF exists(fs, instance.config_path) /\ rm_config = "ok"
               THEN rmtree(fs, instance.config_path) ELSE fs
        \* shutil.rmtree of the compose directory, errors printed only
        fs2 == IF exists(fs1, cpath) /\ rm_compose = "ok"
               THEN rmtree(fs1, cpath) ELSE fs1
        faults == (IF has_compose /\ down # "ok" THEN {down} ELSE {})
                  \cup (IF exists(fs, instance.config_path) /\ rm_config # "ok"
                        THEN {"rm_config"} ELSE {})
                  \cup (IF exists(fs1, cpath) /\ rm_compose # "ok"
                        THEN {"rm_compose"} ELSE {})
        cleaned == [Here EXCEPT
                      !.fs = fs2,
                      !.sip_conf = Sync(sip_conf, fs2),
                      !.containers = IF has_compose /\ down = "ok"
                                     THEN containers \ {instance.name}
                                     ELSE containers]
    IN
    IF has_compose /\ down \in StopAborts THEN
        Reply(500,
              IF down = "timeout" THEN "Timeout during container shutdown"
              ELSE "Error during deletion",
              <<>>, {down}, Here)
    ELSE IF commit = "ok" THEN
        Reply(200, "Instance deleted successfully", <<>>, faults,
              [cleaned EXCEPT !.instances = instances \ {instance}])
    ELSE
        Reply(500, "Error during deletion", <<>>, faults \cup {"commit"}, cleaned)

----------------------------------------------------------------------------
(* PUT /instances/{instance_id} *)

StatusInputs == {"running"}

\* One optional field of the request body: absent, or present with value v
Field(f, vals) == {<<>>} \cup {f :> v : v \in vals}

\* AsteriskInstanceUpdate bodies, as instance_update.dict(exclude_unset=True)
UpdateBodies ==
    {n @@ s @@ h @@ st :
        n \in Field("name", Names), s \in Field("sip_port", SipPorts),
        h \in Field("http_port", HttpPorts), st \in Field("status", StatusInputs)}

UpdateRequests == {upd \in UpdateBodies : Cardinality(DOMAIN upd) <= MaxFields}

\* "if instance_update.<f>": the field is set and its value is not falsy
TruthyPort(upd, f) == f \in DOMAIN upd /\ upd[f] # 0
TruthyName(upd) == "name" \in DOMAIN upd /\ upd["name"] # ""

\* The update puts the instance back to "stopped" unless a status is supplied
ApplyUpdateResetsStatus(instance, upd) ==
    [f \in DOMAIN instance |->
        IF f \in DOMAIN upd THEN upd[f]
        ELSE IF f = "status" THEN "stopped" ELSE instance[f]]

\* for field, value in update_data.items(): setattr(instance, field, value)
ApplyUpdate(instance, upd) ==
    [f \in DOMAIN instance |-> IF f \in DOMAIN upd THEN upd[f] ELSE instance[f]]

update_instance(id, upd, commit) ==
    IF ById(instances, id) = {} THEN
        Reply(404, "Instance not found", <<>>, {}, Here)
    ELSE
    LET instance == CHOOSE x \in ById(instances, id) : TRUE
        new == ApplyUpdate(instance, upd)
    IN
    IF /\ TruthyName(upd)
       /\ upd["name"] # instance.name
       /\ \E r \in instances : r.name = upd["name"]
    THEN Reply(400, "Instance name already exists", <<>>, {}, Here)
    ELSE IF /\ TruthyPort(upd, "sip_port")
            /\ upd["sip_port"] # instance.sip_port
            /\ \E r \in instances : r.sip_port = upd["sip_port"]
    THEN Reply(400, "SIP port already in use", <<>>, {}, Here)
    ELSE IF /\ TruthyPort(upd, "http_port")
            /\ upd["http_port"] # instance.http_port
            /\ \E r \in instances : r.http_port = upd["http_port"]
    THEN Reply(400, "HTTP port already in use", <<>>, {}, Here)
    ELSE IF commit = "error" \/ IntegrityError(instances, new)
    THEN \* db.commit() raises, nothing catches it
         Reply(500, "Internal Server Error", <<>>, {"commit"}, Here)
    ELSE Reply(200, "", new, {},
               [Here EXCEPT !.instances = (instances \ {instance}) \cup {new}])

----------------------------------------------------------------------------
(* The users of an instance: routes/users.py (main.py holds the same text) *)

Usernames == {"1001", "1002"}

\* The order in which a query returns the rows of sip_users
UserOrder == <<"1001", "1002">>

HasSection(users, n) == \E u \in users : u.username = n

\* The filter on is_active is missing
ActiveUsersAll(users, name) == {u \in users : u.instance_name = name}

\* .filter(SIPUser.instance_name == instance_name, SIPUser.is_active == True)
ActiveUsers(users, name) == {u \in users : u.instance_name = name /\ u.is_active}

\* sip_conf_content: the [general] section, then one section per user
Render(sip, users) ==
    SipConf(sip, SelectSeq(UserOrder, LAMBDA n : HasSection(users, n)))

\* A value of a free-text column (caller_id, account_code), cut at its line
\* breaks into pieces.  A piece is plain text, or opens with "[name]".
Plain(s) == [header |-> FALSE, text |-> s]
Bracket(n) == [header |-> TRUE, text |-> n]

\* The values a request may carry in a free-text field: SIPUserCreate and
\* SIPUserUpdate declare them as str, and the handlers store them as they come
FreeTexts ==
    { <<Plain("Test User 1")>>,
      <<Bracket("1002")>>,
      <<Plain("x"), Bracket("1002"), Plain("secret=x")>> }

\* A line of the file as Asterisk reads it: a comment, a section header
\* "[key]", a "key=value" line, or other text
Line(kind, key, value) == [kind |-> kind, key |-> key, value |-> value]

\* A piece of user text that begins a line of the file
Standalone(piece) ==
    IF piece.header THEN Line("section", piece.text, "")
    ELSE Line("text", "", piece.text)

\* f"...{text}...": the template line holds the first piece of the text; every
\* line break of the text begins a new line of the file
Embed(kind, key, text) ==
    <<Line(kind, key, text[1].text)>>
    \o [i \in 1..(Len(text) - 1) |-> Standalone(text[i + 1])]

\* The lines one pass of the loop appends for `user`, whose free-text columns
\* hold `text`
UserSection(user, text) ==
    Embed("comment", ";", text.caller_id)
    \o <<Line("section", user.username, ""),
         Line("key", "type", "friend"),
         Line("key", "host", "dynamic")>>
    \o Embed("key", "callerid", text.caller_id)
    \o Embed("key", "accountcode", text.account_code)
    \o <<Line("key", "dtmfmode", "rfc2833"),
         Line("key", "qualify", "yes")>>

RECURSIVE UserSections(_, _, _)
\* for user in users: sip_conf_content += ...; `order` is the order of the
\* rows, `texts` their free-text columns by username
UserSections(order, users, texts) ==
    IF order = <<>> THEN <<>>
    ELSE (IF HasSection(users, Head(order))
          THEN UserSection(CHOOSE u \in users : u.username = Head(order),
                           texts[Head(order)])
          ELSE <<>>)
         \o UserSections(Tail(order), users, texts)

ReloadOutcomes == {"ok", "nonzero", "timeout", "unavailable"}

\* reload_asterisk_sip: "docker ps" decides whether "docker exec ... sip
\* reload" is run; every exception is caught and printed.  `exec` tells
\* whether the reload was requested of the container, `failed` what failed.
reload_asterisk_sip(st, instance_name, reload) ==
    IF reload = "unavailable" THEN [exec |-> FALSE, failed |-> {reload}]
    ELSE IF instance_name \notin st.containers
    THEN [exec |-> FALSE, failed |-> {}]
    ELSE [exec |-> TRUE, failed |-> IF reload = "ok" THEN {} ELSE {reload}]

\* What "docker exec" does for POST /instances/{instance_id}/reload: it
\* runs and exits with 0 or not, or the docker command cannot be launched
ExecOutcomes == {"ok", "nonzero", "unavailable"}

\* reload_instance of routes/instances/instances.py (main.py holds the same
\* text).  "docker exec" of a container that is not up exits non-zero; the
\* HTTPException raised for a non-zero exit is raised inside the try block,
\* so the except clause catches it and raises its own.
reload_instance(st, id, run) ==
    IF ById(st.instances, id) = {} THEN
        Reply(404, "Instance not found", <<>>, {}, st)
    ELSE
    LET instance == CHOOSE x \in ById(st.instances, id) : TRUE
    IN  IF run = "unavailable" THEN
            Reply(500, "Error reloading configuration", <<>>, {run}, st)
        ELSE IF instance.name \in st.containers /\ run = "ok" THEN
            Reply(200, "Configuration reloaded successfully", <<>>, {}, st)
        ELSE
            Reply(500, "Error reloading configuration", <<>>, {"nonzero"}, st)

WriteOutcomes == {"ok", "error"}

\* What a regeneration leaves: the state, the content it wrote (<<>>: it
\* wrote nothing), whether it requested a reload, and what failed
Regenerated(st, written, exec, faults) ==
    [st |-> st, written |-> written, exec |-> exec, faults |-> faults]

update_sip_config(st, instance_name, write, reload) ==
    LET found == {r \in st.instances : r.name = instance_name}
    IN
    IF found = {} THEN Regenerated(st, <<>>, FALSE, {})
    ELSE
    LET instance == CHOOSE r \in found : TRUE
        content == Render(instance.sip_port, ActiveUsers(st.sip_users, instance_name))
        dir == instance.config_path
        made == [st EXCEPT !.fs = @ \cup {dir}]
    IN
    IF write = "error" THEN
        \* open() raises: the except block prints, no reload is requested
        Regenerated(made, <<>>, FALSE, {"write"})
    ELSE
        Regenerated([made EXCEPT !.fs = @ \cup {sip_conf_path(dir)},
                                 !.sip_conf = WriteFile(@, sip_conf_path(dir), content)],
                    content,
                    reload_asterisk_sip(st, instance_name, reload).exec,
                    reload_asterisk_sip(st, instance_name, reload).failed)

\* No except block: a failed write or reload fails the request
RosterReplyRaising(code, detail, body, regen) ==
    [code |-> IF regen.faults = {} THEN code ELSE 500,
     detail |-> IF regen.faults = {} THEN detail ELSE "Internal Server Error",
     body |-> IF regen.faults = {} THEN body ELSE <<>>,
     faults |-> regen.faults,
     st |-> regen.st, written |-> regen.written, exec |-> regen.exec]

\* The reply of a handler of users.py: a reply with what its regeneration did
RosterReply(code, detail, body, regen) ==
    [code |-> code, detail |-> detail, body |-> body, faults |-> regen.faults,
     st |-> regen.st, written |-> regen.written, exec |-> regen.exec]

Rejected(code, detail, st) ==
    RosterReply(code, detail, <<>>, Regenerated(st, <<>>, FALSE, {}))

\* The filter on instance_name is missing: the user is looked up by id alone
UserOfAnyInstance(st, instance, key) ==
    {u \in st.sip_users : UserKey(u) = key}

\* .filter(SIPUser.id == user_id, SIPUser.instance_name == instance.name)
UserOf(st, instance, key) ==
    {u \in st.sip_users : UserKey(u) = key /\ u.instance_name = instance.name}

create_sip_user(st, id, username, commit, write, reload) ==
    IF ById(st.instances, id) = {} THEN Rejected(404, "Instance not found", st)
    ELSE
    LET instance == CHOOSE x \in ById(st.instances, id) : TRUE
        db_user == SIPUser(username, instance.name, TRUE)
    IN
    IF \E u \in st.sip_users : UserKey(u) = UserKey(db_user) THEN
        Rejected(400, "Username already exists for this instance", st)
    ELSE IF commit = "error" THEN Rejected(500, "Internal Server Error", st)
    ELSE RosterReply(200, "", db_user,
             update_sip_config([st EXCEPT !.sip_users = @ \cup {db_user}],
                               instance.name, write, reload))

\* The unique constraint of sip_users is missing
UserIntegrityErrorNone(users, row) == FALSE

\* uix_username_instance: a commit that would leave two rows with the same
\* (username, instance_name) raises IntegrityError
UserIntegrityError(users, row) == \E u \in users : UserKey(u) = UserKey(row)

\* create_sip_user served step by step, as it is when requests of several
\* workers meet at the database.  The first step is the two lookups: the
\* code it answers at once, or 0 when the request goes on.
create_sip_user_check(st, id, username) ==
    IF ById(st.instances, id) = {} THEN 404
    ELSE IF \E u \in st.sip_users :
                UserKey(u) = <<username, (CHOOSE x \in ById(st.instances, id) : TRUE).name>>
    THEN 400
    ELSE 0

\* A request that has passed the lookups: it holds the instance it has read
AddUser(n, instance, username) ==
    [op |-> "add_user", n |-> n, pc |-> "checked", code |-> 0,
     id |-> instance.id, name |-> instance.name, username |-> username]

\* The second step: db.add, db.commit, update_sip_config.  An IntegrityError
\* of the commit is caught by nothing.
create_sip_user_commit(st, req, commit, write, reload) ==
    LET db_user == SIPUser(req.username, req.name, TRUE)
    IN  IF commit = "error" \/ UserIntegrityError(st.sip_users, db_user)
        THEN Rejected(500, "Internal Server Error", st)
        ELSE RosterReply(200, "", db_user,
                 update_sip_config([st EXCEPT !.sip_users = @ \cup {db_user}],
                                   req.name, write, reload))

\* SIPUserUpdate bodies: of the fields of the schema, is_active is modelled
UserUpdates == Field("is_active", BOOLEAN)

update_sip_user(st, id, key, upd, commit, write, reload) ==
    IF ById(st.instances, id) = {} THEN Rejected(404, "Instance not found", st)
    ELSE
    LET instance == CHOOSE x \in ById(st.instances, id) : TRUE
    IN
    IF UserOf(st, instance, key) = {} THEN Rejected(404, "User not found", st)
    ELSE
    LET user == CHOOSE u \in UserOf(st, instance, key) : TRUE
        new == ApplyUpdate(user, upd)
    IN
    IF commit = "error" THEN Rejected(500, "Internal Server Error", st)
    ELSE RosterReply(200, "", new,
             update_sip_config([st EXCEPT !.sip_users = (@ \ {user}) \cup {new}],
                               instance.name, write, reload))

delete_sip_user(st, id, key, commit, write, reload) ==
    IF ById(st.instances, id) = {} THEN Rejected(404, "Instance not found", st)
    ELSE
    LET instance == CHOOSE x \in ById(st.instances, id) : TRUE
    IN
    IF UserOf(st, instance, key) = {} THEN Rejected(404, "User not found", st)
    ELSE
    LET user == CHOOSE u \in UserOf(st, instance, key) : TRUE
    IN
    IF commit = "error" THEN Rejected(500, "Internal Server Error", st)
    ELSE RosterReply(200, "User deleted successfully", <<>>,
             update_sip_config([st EXCEPT !.sip_users = @ \ {user}],
                               instance.name, write, reload))

get_sip_user(st, id, key) ==
    IF ById(st.instances, id) = {}
    THEN [code |-> 404, detail |-> "Instance not found", body |-> <<>>]
    ELSE
    LET instance == CHOOSE x \in ById(st.instances, id) : TRUE
    IN  IF UserOf(st, instance, key) = {}
        THEN [code |-> 404, detail |-> "User not found", body |-> <<>>]
        ELSE [code |-> 200, detail |-> "",
              body |-> CHOOSE u \in UserOf(st, instance, key) : TRUE]

\* The list of the users of an instance (an unknown instance: 404)
get_sip_users(st, id) ==
    IF ById(st.instances, id) = {}
    THEN [code |-> 404, detail |-> "Instance not found", body |-> {}]
    ELSE
    LET instance == CHOOSE x \in ById(st.instances, id) : TRUE
    IN  [code |-> 200, detail |-> "",
         body |-> {u \in st.sip_users : u.instance_name = instance.name}]

----------------------------------------------------------------------------
(* PUT /instances/{instance_id}/config and
   GET /instances/{instance_id}/config/{config_type} *)

\* A directory exists when something exists at it or below it; the working
\* directory always does
isdir(tree, p) == p = <<>> \/ \E q \in tree : IsPrefix(p, q)

RECURSIVE Walk(_, _, _)
\* The path the kernel resolves `path` to from directory `at`: ".." leaves
\* for the parent, every directory on the way has to exist (ENOENT: <<>>),
\* the last component is the file
Walk(tree, path, at) ==
    IF Len(path) = 1 THEN at \o path
    ELSE LET next == IF Head(path) = ".."
                     THEN SubSeq(at, 1, Len(at) - 1)
                     ELSE Append(at, Head(path))
         IN  IF isdir(tree, next) THEN Walk(tree, Tail(path), next) ELSE <<>>

\* config_type as the request carries it, cut at its "/": the body of the PUT
\* is a free string, the path parameter of the GET holds no "/"
ConfigNames == {"sip", "users"}
ConfigTypes == {<<n>> : n \in ConfigNames} \cup {<<"..", n, "sip">> : n \in Names}

\* f"{instance.config_path}/{config_type}.conf"
config_file(instance, config_type) ==
    instance.config_path
    \o SubSeq(config_type, 1, Len(config_type) - 1)
    \o <<config_type[Len(config_type)] \o ".conf">>

\* The content of a request: the sections it holds, with "\r\n" where a line
\* break of the text is a carriage return and a line feed
RawContents == {<<>>, <<"7001">>, <<"7001", "\r\n", "7002">>}

\* open(path, "r").read(): text mode with the default newline=None reads
\* "\r\n" and "\r" as "\n"
ReadText(content) ==
    [i \in 1..Len(content) |->
        IF content[i] \in {"\r\n", "\r"} THEN "\n" ELSE content[i]]

\* open(path, "w").write(content): text mode writes "\n" as os.linesep,
\* which is "\n", and every other character as it is
WriteText(conf, path, content) ==
    [q \in DOMAIN conf \cup {path} |-> IF q = path THEN content ELSE conf[q]]

update_config(st, id, config_type, content, write) ==
    IF ById(st.instances, id) = {} THEN
        Reply(404, "Instance not found", <<>>, {}, st)
    ELSE
    LET instance == CHOOSE x \in ById(st.instances, id) : TRUE
        path == Walk(st.fs, config_file(instance, config_type), <<>>)
    IN
    IF path = <<>> \/ write = "error" THEN
        Reply(500, "Failed to update config", <<>>, {"write"}, st)
    ELSE
        Reply(200, "Config updated successfully", <<>>, {},
              [st EXCEPT !.fs = @ \cup {path},
                         !.sip_conf = WriteText(@, path, content)])

\* `read` is the file the handler has opened (<<>>: none)
get_config(st, id, config_type) ==
    IF ById(st.instances, id) = {} THEN
        [code |-> 404, detail |-> "Instance not found", body |-> <<>>, read |-> <<>>]
    ELSE
    LET instance == CHOOSE x \in ById(st.instances, id) : TRUE
        path == Walk(st.fs, config_file(instance, <<config_type>>), <<>>)
    IN
    IF path = <<>> \/ ~ exists(st.fs, path) THEN
        [code |-> 404, detail |-> "Config file not found", body |-> <<>>, read |-> <<>>]
    ELSE
        [code |-> 200, detail |-> "", body |-> ReadText(st.sip_conf[path]), read |-> path]

----------------------------------------------------------------------------
(* The system: one action per route, and the background task runner *)

\* The autoincrement key is capped: no create is accepted past MaxCreates rows
Accept(reply) == reply.st.nextId <= MaxCreates + 1 /\ Apply(reply)

\* A request turned down at validation makes no external call, and a call
\* that is never made has no outcome: the actions run a handler against the
\* outcomes of the calls it can reach only.
FaultsAfter(code) == IF code = 200 THEN CreateFaults ELSE {"none"}
SeedAfter(code) == IF code = 200 THEN BOOLEAN ELSE {FALSE}
OutcomesIf(reached, outcomes) == IF reached THEN outcomes ELSE {"ok"}

PostInstancesMain ==
    \E name \in Names, sip \in SipPorts, http \in HttpPorts :
       LET code == create_instance_main(name, sip, http, FALSE, "none", 0).code IN
       \E create_test_users \in SeedAfter(code), fault \in FaultsAfter(code) :
       \E failAt \in FailAts(fault, MainConfigs) :
          Accept(create_instance_main(name, sip, http, create_test_users, fault, failAt))

PostInstances ==
    \E name \in Names, sip \in SipPorts, http \in HttpPorts, rtp \in RtpRanges :
       LET code == create_instance(name, sip, http, rtp[1], rtp[2], FALSE, "none", 0).code IN
       \E create_test_users \in SeedAfter(code), fault \in FaultsAfter(code) :
       \E failAt \in FailAts(fault, RoutesConfigs) :
          Accept(create_instance(name, sip, http, rtp[1], rtp[2], create_test_users,
                                 fault, failAt))

BackgroundTask ==
    \E t \in tasks, fault \in StartFaults, run \in RunOutcomes :
       Apply(run_background_task(t, fault, run))

PutInstance ==
    \E id \in Ids, upd \in UpdateRequests :
       \E commit \in OutcomesIf(update_instance(id, upd, "ok").code = 200, CommitOutcomes) :
          Apply(update_instance(id, upd, commit))

DeleteInstance ==
    \E id \in Ids :
       LET found == ById(instances, id) # {}
           instance == CHOOSE x \in ById(instances, id) : TRUE
           composed == found /\ exists(fs, compose_path(instance.name))
           configured == found /\ exists(fs, instance.config_path)
       IN
       \E down \in OutcomesIf(composed, DownOutcomes),
          rm_config \in OutcomesIf(configured, RmOutcomes),
          rm_compose \in OutcomesIf(composed, RmOutcomes),
          commit \in OutcomesIf(found, CommitOutcomes) :
          Apply(delete_instance(id, down, rm_config, rm_compose, commit))

Next ==
    \/ PostInstancesMain
    \/ PostInstances
    \/ BackgroundTask
    \/ PutInstance
    \/ DeleteInstance

Spec == Init /\ [][Next]_vars

\* Starlette runs every background task of a response that was sent
FairSpec == Spec /\ WF_vars(BackgroundTask)

----------------------------------------------------------------------------
(* The system seen from the user routes of one instance.  One instance is
   created, started, renamed and given a status, with every external call of
   these requests succeeding; the user routes run against every outcome of
   the commit, of the write of sip.conf and of the reload. *)

UserKeys == Usernames \X Names

\* The ports each name is created with
PortsOf == [pbx1 |-> <<5060, 8088>>, pbx2 |-> <<0, 8089>>]

PostInstancesOk ==
    \E name \in Names, create_test_users \in BOOLEAN :
        /\ instances = {}
        /\ Accept(create_instance_main(name, PortsOf[name][1], PortsOf[name][2],
                                       create_test_users, "none", 0))

PutInstanceOk ==
    \E id \in Ids, upd \in UpdateRequests :
        /\ DOMAIN upd \subseteq {"name", "status"}
        /\ Apply(update_instance(id, upd, "ok"))

PostUser ==
    \E id \in Ids, username \in Usernames :
       LET reached == create_sip_user(Here, id, username, "ok", "ok", "ok").code = 200 IN
       \E commit \in OutcomesIf(reached, CommitOutcomes),
          write \in OutcomesIf(reached, WriteOutcomes),
          reload \in OutcomesIf(reached, ReloadOutcomes) :
          Apply(create_sip_user(Here, id, username, commit, write, reload))

PutUser ==
    \E id \in Ids, key \in UserKeys, upd \in UserUpdates :
       LET reached == update_sip_user(Here, id, key, upd, "ok", "ok", "ok").code = 200 IN
       \E commit \in OutcomesIf(reached, CommitOutcomes),
          write \in OutcomesIf(reached, WriteOutcomes),
          reload \in OutcomesIf(reached, ReloadOutcomes) :
          Apply(update_sip_user(Here, id, key, upd, commit, write, reload))

DeleteUser ==
    \E id \in Ids, key \in UserKeys :
       LET reached == delete_sip_user(Here, id, key, "ok", "ok", "ok").code = 200 IN
       \E commit \in OutcomesIf(reached, CommitOutcomes),
          write \in OutcomesIf(reached, WriteOutcomes),
          reload \in OutcomesIf(reached, ReloadOutcomes) :
          Apply(delete_sip_user(Here, id, key, commit, write, reload))

PostReload ==
    \E id \in Ids, run \in ExecOutcomes : Apply(reload_instance(Here, id, run))

RosterNext ==
    \/ PostInstancesOk
    \/ BackgroundTask
    \/ PutInstanceOk
    \/ PostUser
    \/ PutUser
    \/ DeleteUser
    \/ PostReload

RosterSpec == Init /\ [][RosterNext]_vars

----------------------------------------------------------------------------
(* The system seen from the configuration routes: instances are created,
   renamed and deleted, and their files are written through the PUT of a
   configuration file. *)

PostInstancesPlain ==
    \E name \in Names, sip \in SipPorts, http \in HttpPorts :
        Accept(create_instance_main(name, sip, http, FALSE, "none", 0))

PutConfig ==
    \E id \in Ids, config_type \in ConfigTypes, content \in RawContents :
       LET reached == update_config(Here, id, config_type, content, "ok").code = 200 IN
       \E write \in OutcomesIf(reached, WriteOutcomes) :
          Apply(update_config(Here, id, config_type, content, write))

ConfigNext ==
    \/ PostInstancesPlain
    \/ PutInstanceOk
    \/ PutConfig
    \/ DeleteInstance

ConfigSpec == Init /\ [][ConfigNext]_vars

----------------------------------------------------------------------------
(* Requests that meet at the database.  The handlers of the routes hold no
   lock: between the lookups of one request and its commit, another request,
   served by another worker, may run.  A request served step by step is kept
   in `inflight` from its first step on, with its answer once it has one. *)

\* Nothing but `inflight` changes
Pending(req) ==
    /\ inflight' = inflight \cup {req}
    /\ UNCHANGED <<instances, nextId, sip_users, fs, containers, tasks, sip_conf>>

\* Request `req` takes the step that ends it with `reply`
Answer(req, reply) ==
    /\ Become(reply.st)
    /\ inflight' = (inflight \ {req}) \cup {[req EXCEPT !.pc = "done", !.code = reply.code]}

PostUserCheck ==
    \E id \in Ids, username \in Usernames :
        /\ Cardinality(inflight) < MaxInflight
        /\ create_sip_user_check(Here, id, username) = 0
        /\ Pending(AddUser(Cardinality(inflight) + 1,
                           CHOOSE x \in ById(instances, id) : TRUE, username))

PostUserCommit ==
    \E req \in inflight :
        /\ req.op = "add_user" /\ req.pc = "checked"
        /\ LET reached == create_sip_user_commit(Here, req, "ok", "ok", "ok").code = 200 IN
           \E commit \in OutcomesIf(reached, CommitOutcomes),
              write \in OutcomesIf(reached, WriteOutcomes),
              reload \in OutcomesIf(reached, ReloadOutcomes) :
              Answer(req, create_sip_user_commit(Here, req, commit, write, reload))

\* Request `req` takes a step that leaves it at `pc`, or ends it with the
\* answer of `reply` when that is one
Step(req, reply, pc) ==
    IF reply.code = 0
    THEN /\ Become(reply.st)
         /\ inflight' = (inflight \ {req}) \cup {[req EXCEPT !.pc = pc]}
    ELSE Answer(req, reply)

PostInstancesValidate ==
    \E name \in Names, sip \in SipPorts, http \in HttpPorts,
       create_test_users \in BOOLEAN :
        /\ Cardinality(inflight) < MaxInflight
        /\ create_instance_validate(Here, name, sip, http) = 0
        /\ Pending(Creating(Cardinality(inflight) + 1, name, sip, http,
                            create_test_users))

PostInstancesWrite ==
    \E req \in inflight, fault \in {"none", "makedirs", "write"} :
        /\ req.op = "create" /\ req.pc = "validated"
        /\ \E failAt \in FailAts(fault, MainConfigs) :
               Step(req, create_instance_write(Here, req, fault, failAt), "written")

PostInstancesCommit ==
    \E req \in inflight, fault \in {"none", "commit", "seed_commit"} :
        /\ req.op = "create" /\ req.pc = "written"
        /\ fault = "seed_commit" => req.create_test_users
        /\ Answer(req, create_instance_commit(Here, req, fault))

CreateRaceNext ==
    \/ PostInstancesValidate
    \/ PostInstancesWrite
    \/ PostInstancesCommit

CreateRaceSpec == Init /\ [][CreateRaceNext]_vars

UserRaceNext ==
    \/ PostInstancesOk
    \/ PostUserCheck
    \/ PostUserCommit
    \/ PutUser

UserRaceSpec == Init /\ [][UserRaceNext]_vars

----------------------------------------------------------------------------
(* A delete that meets the background start.  start_asterisk_container and
   delete_instance are plain functions, which the server runs in its thread
   pool: the steps of a start and of a delete of the same instance
   interleave.  One instance is created; every external call succeeds unless
   the state it finds makes it fail. *)

\* The start of task t: the attributes of the instance it was handed, the
\* line it has reached, and the exit of "docker-compose up -d" once it ran
Starting(n, t) ==
    [op |-> "start", n |-> n, pc |-> "scheduled", code |-> 0, id |-> t.id,
     name |-> t.name, config_path |-> t.config_path, run |-> "none"]

\* The delete of `instance`, as loaded by its lookup
Deleting(n, instance) ==
    [op |-> "delete", n |-> n, pc |-> "found", code |-> 0, id |-> instance.id,
     name |-> instance.name, config_path |-> instance.config_path, run |-> "none"]

\* os.makedirs(compose_path, exist_ok=True) and the write of docker-compose.yml
start_write_compose(st, req) ==
    LET dir == compose_path(req.name)
    IN  Reply(0, "", <<>>, {},
              [st EXCEPT !.fs = @ \cup {dir, dir \o <<"docker-compose.yml">>}])

\* os.listdir(instance.config_path): FileNotFoundError when it is gone
start_listdir(st, req) ==
    IF exists(st.fs, req.config_path)
    THEN Reply(0, "", <<>>, {}, st)
    ELSE Reply(0, "raised", <<>>, {"listdir"}, st)

\* subprocess.run(["docker-compose", "up", "-d"], cwd=compose_path): a
\* working directory that is gone raises FileNotFoundError
start_up(st, req, run) ==
    IF ~ exists(st.fs, compose_path(req.name))
    THEN Reply(0, "raised", <<>>, {"cwd"}, st)
    ELSE Reply(0, "", <<>>, IF run = "ok" THEN {} ELSE {run},
               [st EXCEPT !.containers = IF run = "ok" THEN @ \cup {req.name} ELSE @])

\* instance.status = ...; db.commit(): the UPDATE of a row that is gone
\* matches nothing (StaleDataError)
start_commit(st, req) ==
    IF ById(st.instances, req.id) = {}
    THEN Reply(0, "raised", <<>>, {"stale"}, st)
    ELSE Reply(0, StartStatus(req.run), <<>>, {},
               [st EXCEPT !.instances = SetStatus(@, req.id, StartStatus(req.run))])

\* if os.path.exists(compose_path): "docker-compose down" inside it
delete_down(st, req) ==
    IF exists(st.fs, compose_path(req.name))
    THEN Reply(0, "", <<>>, {}, [st EXCEPT !.containers = @ \ {req.name}])
    ELSE Reply(0, "", <<>>, {}, st)

\* shutil.rmtree(p) if os.path.exists(p), for the config directory and then
\* for the compose directory
delete_rmtree(st, p) ==
    IF exists(st.fs, p)
    THEN Reply(0, "", <<>>, {},
               [st EXCEPT !.fs = rmtree(@, p),
                          !.sip_conf = Sync(@, rmtree(st.fs, p))])
    ELSE Reply(0, "", <<>>, {}, st)

\* db.delete(instance); db.commit(): a row that is gone already is a warning
delete_commit(st, req) ==
    Reply(200, "Instance deleted successfully", <<>>, {},
          [st EXCEPT !.instances = {r \in @ : r.id # req.id}])

\* The first and only create of the system
PostInstancesOnce ==
    \E name \in Names :
        /\ nextId = 1
        /\ Accept(create_instance_main(name, PortsOf[name][1], PortsOf[name][2],
                                       FALSE, "none", 0))

\* The step of `req` that `reply` describes: to `pc`, or to the end when the
\* reply is an exception or an answer
Proceed(req, reply, pc, run) ==
    /\ Become(reply.st)
    /\ inflight' = (inflight \ {req}) \cup
           {[req EXCEPT !.pc = IF reply.detail = "raised" THEN "raised" ELSE pc,
                        !.code = reply.code, !.run = run]}

\* The server takes the task up
StartBegin ==
    \E t \in tasks :
        /\ Become([Here EXCEPT !.tasks = tasks \ {t}])
        /\ inflight' = inflight \cup {Starting(Cardinality(inflight) + 1, t)}

StartWriteCompose ==
    \E req \in inflight :
        /\ req.op = "start" /\ req.pc = "scheduled"
        /\ Proceed(req, start_write_compose(Here, req), "composed", req.run)

StartListdir ==
    \E req \in inflight :
        /\ req.op = "start" /\ req.pc = "composed"
        /\ Proceed(req, start_listdir(Here, req), "listed", req.run)

StartUp ==
    \E req \in inflight, run \in {"ok", "nonzero"} :
        /\ req.op = "start" /\ req.pc = "listed"
        /\ Proceed(req, start_up(Here, req, run), "up", run)

StartCommit ==
    \E req \in inflight :
        /\ req.op = "start" /\ req.pc = "up"
        /\ Proceed(req, start_commit(Here, req), "done", req.run)

DeleteLookup ==
    \E id \in Ids :
        /\ Cardinality({d \in inflight : d.op = "delete"}) < MaxInflight
        /\ ById(instances, id) # {}
        /\ Pending(Deleting(Cardinality(inflight) + 1,
                            CHOOSE x \in ById(instances, id) : TRUE))

DeleteDown ==
    \E req \in inflight :
        /\ req.op = "delete" /\ req.pc = "found"
        /\ Proceed(req, delete_down(Here, req), "stopped", req.run)

DeleteRmConfig ==
    \E req \in inflight :
        /\ req.op = "delete" /\ req.pc = "stopped"
        /\ Proceed(req, delete_rmtree(Here, req.config_path), "unconfigured", req.run)

DeleteRmCompose ==
    \E req \in inflight :
        /\ req.op = "delete" /\ req.pc = "unconfigured"
        /\ Proceed(req, delete_rmtree(Here, compose_path(req.name)), "cleaned", req.run)

DeleteCommit ==
    \E req \in inflight :
        /\ req.op = "delete" /\ req.pc = "cleaned"
        /\ Proceed(req, delete_commit(Here, req), "done", req.run)

TeardownRaceNext ==
    \/ PostInstancesOnce
    \/ StartBegin
    \/ StartWriteCompose
    \/ StartListdir
    \/ StartUp
    \/ StartCommit
    \/ DeleteLookup
    \/ DeleteDown
    \/ DeleteRmConfig
    \/ DeleteRmCompose
    \/ DeleteCommit

TeardownRaceSpec == Init /\ [][TeardownRaceNext]_vars

----------------------------------------------------------------------------
(* Roster changes that meet at sip.conf.  Between the commit of a user, the
   query of update_sip_config and its write of the file, a request served by
   another worker may run.  One instance is created; the commit, the write
   and the reload succeed. *)

\* An add of a user that has passed the lookups: the instance it has read
\* and, once update_sip_config has built it, the content it is to write
AddingUser(n, instance, username) ==
    [op |-> "add_user", n |-> n, pc |-> "checked", code |-> 0,
     id |-> instance.id, name |-> instance.name, username |-> username,
     dir |-> <<>>, content |-> SipConf(Null, <<>>)]

\* db.add(db_user); db.commit(): an IntegrityError is caught by nothing
add_user_commit(st, req) ==
    LET db_user == SIPUser(req.username, req.name, TRUE)
    IN  IF UserIntegrityError(st.sip_users, db_user)
        THEN Reply(500, "Internal Server Error", <<>>, {"commit"}, st)
        ELSE Reply(0, "", db_user, {}, [st EXCEPT !.sip_users = @ \cup {db_user}])

\* update_sip_config up to its try block: the active users and the instance
\* are queried and the content is built.  `body` is what the request holds
\* from here on; without the instance the function returns and the request
\* is answered.
update_sip_config_read(st, req) ==
    LET found == {r \in st.instances : r.name = req.name}
        instance == CHOOSE r \in found : TRUE
    IN  IF found = {}
        THEN Reply(200, "", [req EXCEPT !.pc = "done"], {}, st)
        ELSE Reply(0, "",
                   [req EXCEPT !.dir = instance.config_path,
                               !.content = Render(instance.sip_port,
                                                  ActiveUsers(st.sip_users, req.name))],
                   {}, st)

\* The try block of update_sip_config: os.makedirs, the write of sip.conf,
\* the reload; then the handler returns the user
update_sip_config_write(st, req) ==
    Reply(200, "", req, {},
          [st EXCEPT !.fs = @ \cup {req.dir, sip_conf_path(req.dir)},
                     !.sip_conf = WriteFile(@, sip_conf_path(req.dir), req.content)])

AddUserCheck ==
    \E id \in Ids, username \in Usernames :
        /\ Cardinality(inflight) < MaxInflight
        /\ create_sip_user_check(Here, id, username) = 0
        /\ Pending(AddingUser(Cardinality(inflight) + 1,
                              CHOOSE x \in ById(instances, id) : TRUE, username))

AddUserCommit ==
    \E req \in inflight :
        /\ req.op = "add_user" /\ req.pc = "checked"
        /\ Step(req, add_user_commit(Here, req), "committed")

AddUserRead ==
    \E req \in inflight :
        /\ req.op = "add_user" /\ req.pc = "committed"
        /\ LET reply == update_sip_config_read(Here, req)
           IN  /\ Become(reply.st)
               /\ inflight' = (inflight \ {req}) \cup
                      {IF reply.code = 0
                       THEN [reply.body EXCEPT !.pc = "read"]
                       ELSE [reply.body EXCEPT !.pc = "done", !.code = reply.code]}

AddUserWrite ==
    \E req \in inflight :
        /\ req.op = "add_user" /\ req.pc = "read"
        /\ Answer(req, update_sip_config_write(Here, req))

RosterRaceNext ==
    \/ PostInstancesOk
    \/ AddUserCheck
    \/ AddUserCommit
    \/ AddUserRead
    \/ AddUserWrite

RosterRaceSpec == Init /\ [][RosterRaceNext]_vars

----------------------------------------------------------------------------
(* Requests that wait for "docker exec".  A request that has launched the
   command inside the container is kept in `inflight` until subprocess.run
   returns or raises.  A command that does not return by itself ("hang") is
   ended by the timeout of the call, when the call has one. *)

\* reload_instance: subprocess.run([...]) with no timeout argument
ReloadRuns == ExecOutcomes \cup {"hang"}

\* A request waiting for the command it has launched
Waiting(n, op, instance, run) ==
    [op |-> op, n |-> n, pc |-> "exec", code |-> 0, id |-> instance.id,
     name |-> instance.name, run |-> run]

\* subprocess.run returns or raises on its own account, or never
Returns(req) == req.run # "hang"

\* POST /instances/{instance_id}/reload: the lookup has found the instance
\* and "docker exec ... reload" is launched
PostReloadExec ==
    \E id \in Ids, run \in ReloadRuns :
        /\ Cardinality(inflight) < MaxInflight
        /\ ById(instances, id) # {}
        /\ Pending(Waiting(Cardinality(inflight) + 1, "reload",
                           CHOOSE x \in ById(instances, id) : TRUE, run))

\* The command has ended: the handler answers
PostReloadReturns ==
    \E req \in inflight :
        /\ req.op = "reload" /\ req.pc = "exec"
        /\ Returns(req)
        /\ Answer(req, reload_instance(Here, req.id, req.run))

\* POST /instances/{instance_id}/users up to reload_asterisk_sip: the user
\* is committed and sip.conf is written; "docker exec ... sip reload" is
\* launched with timeout=30 when "docker ps" lists the container, so that a
\* command that hangs ends as the outcome "timeout"
PostUserExec ==
    \E id \in Ids, username \in Usernames, reload \in ReloadOutcomes :
        /\ Cardinality(inflight) < MaxInflight
        /\ create_sip_user_check(Here, id, username) = 0
        /\ LET reply == create_sip_user(Here, id, username, "ok", "ok", reload)
               req == Waiting(Cardinality(inflight) + 1, "add_user",
                              CHOOSE x \in ById(instances, id) : TRUE, reload)
           IN  /\ Become(reply.st)
               /\ inflight' = inflight \cup
                      {IF reply.exec THEN req
                       ELSE [req EXCEPT !.pc = "done", !.code = reply.code]}

\* subprocess.run has returned or raised TimeoutExpired; every exception is
\* caught and printed, and the handler returns the user
PostUserReturns ==
    \E req \in inflight :
        /\ req.op = "add_user" /\ req.pc = "exec"
        /\ Answer(req, Reply(200, "", <<>>, {}, Here))

ReloadNext ==
    \/ PostInstancesOk
    \/ BackgroundTask
    \/ PostReloadExec
    \/ PostReloadReturns
    \/ PostUserExec
    \/ PostUserReturns

ReloadSpec == Init /\ [][ReloadNext]_vars

\* A handler whose call has returned goes on to its answer
ReloadFairSpec ==
    ReloadSpec /\ WF_vars(PostReloadReturns) /\ WF_vars(PostUserReturns)

----------------------------------------------------------------------------
(* The status column under the update route.  AsteriskInstanceUpdate
   declares status as Optional[str]: the body may carry any text. *)

\* Texts a request may send as status
StatusTexts == {"creating", "running", "error", "stopped", "paused"}

PutStatus ==
    \E id \in Ids, status \in StatusTexts :
        Apply(update_instance(id, "status" :> status, "ok"))

StatusNext ==
    \/ PostInstancesPlain
    \/ BackgroundTask
    \/ PutStatus

StatusSpec == Init /\ [][StatusNext]_vars

----------------------------------------------------------------------------
(* The user routes with two instances: instances are created with or
   without their test users and renamed; users are added, updated and
   removed through either instance. *)

PostInstancesNamed ==
    \E name \in Names, create_test_users \in BOOLEAN :
        Accept(create_instance_main(name, PortsOf[name][1], PortsOf[name][2],
                                    create_test_users, "none", 0))

PutName ==
    \E id \in Ids, name \in Names :
        Apply(update_instance(id, "name" :> name, "ok"))

OwnerNext ==
    \/ PostInstancesNamed
    \/ PutName
    \/ PostUser
    \/ PutUser
    \/ DeleteUser

OwnerSpec == Init /\ [][OwnerNext]_vars

----------------------------------------------------------------------------
(* Properties.  A handler is an operator, so a property of every call of a
   handler is an invariant: in each reachable state it quantifies over the
   requests and the outcomes of the external calls, rejected requests
   included. *)

Overlap(a, b) ==
    a.rtp_port_start <= b.rtp_port_end /\ b.rtp_port_start <= a.rtp_port_end

HasRange(r) == r.rtp_port_start # Null /\ r.rtp_port_end # Null

Disjoint(name, sip, http) ==
    \A r \in instances : r.name # name /\ r.sip_port # sip /\ r.http_port # http

Created(reply) ==
    /\ reply.code = 200
    /\ reply.body.status = "creating"
    /\ reply.body \in reply.st.instances

\* C2: a create whose name and ports collide with no stored instance
\* succeeds, and the instance is stored with status "creating"; so create(A)
\* followed by create(B), A and B disjoint, stores both.
C2_DisjointCreatesSucceed ==
    \A name \in Names, sip \in SipPorts, http \in HttpPorts, rtp \in RtpRanges :
        Disjoint(name, sip, http) =>
            /\ Created(create_instance(name, sip, http, rtp[1], rtp[2], FALSE, "none", 0))
            /\ Created(create_instance_main(name, sip, http, FALSE, "none", 0))

OnlySipTaken(name, sip, http) ==
    /\ \E r \in instances : r.sip_port = sip
    /\ \A r \in instances : r.name # name /\ r.http_port # http

OnlyHttpTaken(name, sip, http) ==
    /\ \E r \in instances : r.http_port = http
    /\ \A r \in instances : r.name # name /\ r.sip_port # sip

\* C3: a create that reuses a stored port is rejected with a conflict error
\* whose content identifies the attribute that collided: the answer to a
\* signaling port collision differs from the answer to a management port
\* collision.
C3_ConflictNamesAttribute ==
    \A name \in Names, s1 \in SipPorts, h1 \in HttpPorts,
       s2 \in SipPorts, h2 \in HttpPorts :
        (OnlySipTaken(name, s1, h1) /\ OnlyHttpTaken(name, s2, h2)) =>
            LET a == create_instance_main(name, s1, h1, FALSE, "none", 0)
                b == create_instance_main(name, s2, h2, FALSE, "none", 0)
            IN  a.code = 400 /\ b.code = 400 /\ a.detail # b.detail

NoResidue(reply) ==
    /\ reply.st.instances \subseteq instances
    /\ reply.st.fs \subseteq fs

\* C4: a create that answers an error, whatever the step that failed
\* (conflict, directory or artifact write, record commit, seed-user commit),
\* leaves no instance record and no namespace path that did not exist before.
C4_FailedCreateLeavesNothing ==
    /\ \A name \in Names, sip \in SipPorts, http \in HttpPorts,
          create_test_users \in BOOLEAN, fault \in CreateFaults :
           \A failAt \in FailAts(fault, MainConfigs) :
               LET reply == create_instance_main(name, sip, http, create_test_users,
                                                 fault, failAt)
               IN  reply.code >= 400 => NoResidue(reply)
    /\ \A name \in Names, sip \in SipPorts, http \in HttpPorts, rtp \in RtpRanges,
          create_test_users \in BOOLEAN, fault \in CreateFaults :
           \A failAt \in FailAts(fault, RoutesConfigs) :
               LET reply == ProvisionRoutes(name, sip, http, rtp[1], rtp[2],
                                            create_test_users, fault, failAt)
               IN  reply.code >= 400 => NoResidue(reply)

\* What a create that answered `reply` has done, `configs` being its file set
CommittedAfterArtifacts(reply, fault, dir, configs, rev) ==
    /\ reply.code = 200 =>
           /\ Created(reply)
           /\ dir \in reply.st.fs
           /\ ArtifactSet(dir, configs) \subseteq reply.st.fs
           /\ Task(rev, reply.body) \in reply.st.tasks
           /\ reply.st.containers = containers
    /\ fault \in {"makedirs", "write"} => reply.st.instances = instances

\* C5: a create that succeeds has stored the record with status "creating",
\* the namespace directory and the full artifact set are on disk, the record
\* it returns carries "creating", and the start is still pending: no
\* container was started by the handler.  A create whose directory or
\* artifact write failed has committed nothing.
C5_CommitAfterArtifacts ==
    /\ \A name \in Names, sip \in SipPorts, http \in HttpPorts,
          create_test_users \in BOOLEAN, fault \in CreateFaults :
           \A failAt \in FailAts(fault, MainConfigs) :
               CommittedAfterArtifacts(
                   create_instance_main(name, sip, http, create_test_users,
                                        fault, failAt),
                   fault, config_dir(name), MainConfigs, "main")
    /\ \A name \in Names, sip \in SipPorts, http \in HttpPorts, rtp \in RtpRanges,
          create_test_users \in BOOLEAN, fault \in CreateFaults :
           \A failAt \in FailAts(fault, RoutesConfigs) :
               CommittedAfterArtifacts(
                   ProvisionRoutes(name, sip, http, rtp[1], rtp[2],
                                   create_test_users, fault, failAt),
                   fault, config_dir(name), RoutesConfigs, "routes")

\* A create has succeeded and its start has not run yet
C5_CreatedAwaitingStart ==
    \E r \in instances :
        /\ r.status = "creating"
        /\ Task("main", r) \in tasks
        /\ ArtifactSet(r.config_path, MainConfigs) \subseteq fs
\* The status of instance id in a set of rows ("" when it has no row)
StatusOf(rows, id) ==
    IF ById(rows, id) = {} THEN "" ELSE (CHOOSE x \in ById(rows, id) : TRUE).status

\* The start did not bring the workload up
StartFailed(t, fault, run) ==
    fault # "none" \/ run # "ok" \/ ~ exists(fs, t.config_path)

\* The start functions of the two revisions
StartReplies(t, fault, run) ==
    {start_asterisk_container_main(t, fault, run),
     start_asterisk_container(t, fault, run)}

\* C6: a background start that fails in any way (non-zero exit, timeout, an
\* error while preparing or launching) leaves the instance with status
\* "error", its record and its namespace directory retained.
C6_FailedStartSetsError ==
    \A t \in tasks, fault \in StartFaults, run \in RunOutcomes :
        (StartFailed(t, fault, run) /\ ById(instances, t.id) # {}) =>
            \A reply \in StartReplies(t, fault, run) :
                /\ StatusOf(reply.st.instances, t.id) = "error"
                /\ exists(fs, t.config_path) => exists(reply.st.fs, t.config_path)

RunningIds(rows) == {r.id : r \in {x \in rows : x.status = "running"}}

\* The instances a reply has turned to "running"
Started(reply) == RunningIds(reply.st.instances) \ RunningIds(instances)

\* No create and no delete turns an instance to "running"
NoStartByCreateOrDelete ==
    /\ \A name \in Names, sip \in SipPorts, http \in HttpPorts,
          create_test_users \in BOOLEAN, fault \in CreateFaults :
           \A failAt \in FailAts(fault, MainConfigs) :
               Started(create_instance_main(name, sip, http, create_test_users,
                                            fault, failAt)) = {}
    /\ \A name \in Names, sip \in SipPorts, http \in HttpPorts, rtp \in RtpRanges,
          create_test_users \in BOOLEAN, fault \in CreateFaults :
           \A failAt \in FailAts(fault, RoutesConfigs) :
               Started(create_instance(name, sip, http, rtp[1], rtp[2],
                                       create_test_users, fault, failAt)) = {}
    /\ \A id \in Ids, down \in DownOutcomes, rm_config \in RmOutcomes,
          rm_compose \in RmOutcomes, commit \in CommitOutcomes :
           Started(delete_instance(id, down, rm_config, rm_compose, commit)) = {}

\* The background start turns to "running" its own instance only, and
\* only when the workload came up
StartOnlyBySuccess ==
    \A t \in tasks, fault \in StartFaults, run \in RunOutcomes :
        \A reply \in StartReplies(t, fault, run) :
            Started(reply) # {} =>
                /\ Started(reply) = {t.id}
                /\ fault = "none" /\ run = "ok"
                /\ t.name \in reply.st.containers

C8_ProvisioningEnds ==
    \A id \in Ids :
        (StatusOf(instances, id) = "creating") ~> (StatusOf(instances, id) # "creating")

\* The existing instance id is deleted with these outcomes of its steps; the
\* stop step runs only when the compose directory of the instance exists
StopRuns(id) ==
    \E r \in ById(instances, id) : exists(fs, compose_path(r.name))

Removed(reply, id) ==
    /\ reply.code = 200
    /\ ById(reply.st.instances, id) = {}

WorkloadUp(state, r) ==
    \E name \in state.containers : config_dir(name) = r.config_path

\* C10: after the delete of a running instance has answered success, even
\* with every step of the teardown succeeding, the workload of the instance
\* is stopped and removed, its namespace directory is removed, its record is
\* removed, and a get of the instance answers not found.
C10_DeleteTearsDown ==
    \A r \in instances :
        (r.status = "running" /\ WorkloadUp(Here, r)) =>
            LET reply == delete_instance(r.id, "ok", "ok", "ok", "ok")
            IN  reply.code = 200 =>
                    /\ ~ WorkloadUp(reply.st, r)
                    /\ ~ exists(reply.st.fs, r.config_path)
                    /\ ById(reply.st.instances, r.id) = {}
                    /\ get_instance(reply.st.instances, r.id).code = 404
\* The workload of the instance does not exist, or its namespace is absent
NothingToTearDown(r) ==
    r.name \notin containers \/ ~ exists(fs, r.config_path)

\* C11: the delete of an instance whose workload does not exist (it failed to
\* start, or was stopped and removed already) or whose namespace is already
\* absent succeeds and removes the record: a stop command that finds nothing
\* to stop, whatever its exit code, and a directory that is not there are
\* no errors.
C11_DeleteOfAbsentTargetsSucceeds ==
    \A r \in instances, down \in {"ok", "nonzero"} :
        NothingToTearDown(r) =>
            LET reply == delete_instance(r.id, down, "ok", "ok", "ok")
            IN  /\ Removed(reply, r.id)
                /\ reply.detail = "Instance deleted successfully"

\* An instance that failed to start is stored next to one whose namespace
\* directory is gone, and an earlier instance has been deleted
C11_FailedInstanceStored ==
    /\ \E r \in instances :
          r.status = "error" /\ r.name \notin containers /\ StopRuns(r.id)
    /\ \E r \in instances : ~ exists(fs, r.config_path)

\* C12: the delete of an id that has no record, never created or deleted
\* before, answers not found and changes no record, no path and no container.
C12_DeleteOfMissingIsNotFound ==
    \A id \in Ids, down \in DownOutcomes, rm_config \in RmOutcomes,
       rm_compose \in RmOutcomes, commit \in CommitOutcomes :
        (\A r \in instances : r.id # id) =>
            LET reply == delete_instance(id, down, rm_config, rm_compose, commit)
            IN  reply.code = 404 /\ reply.st = Here

\* Instance 1 was created and deleted, and another instance is stored
C12_DeletedBefore ==
    /\ nextId > 2
    /\ ById(instances, 1) = {}
    /\ instances # {}

\* C13: a delete that succeeds although its stop step or a removal step
\* failed answers with a warning that names the failed step: its response
\* is not the response of a delete whose every step succeeded.
C13_DeleteWarnsOfFailedCleanup ==
    \A id \in Ids, down \in DownOutcomes, rm_config \in RmOutcomes,
       rm_compose \in RmOutcomes :
        LET reply == delete_instance(id, down, rm_config, rm_compose, "ok")
        IN  (reply.code = 200 /\ reply.faults # {}) =>
                <<reply.detail, reply.body>> # <<"Instance deleted successfully", <<>> >>

\* C14: an update changes, in the row of its instance, the fields its body
\* supplies and no other; it changes no other row, no path, no container, no
\* task and no user.  In particular the status changes only when supplied,
\* and no workload is started or stopped.
C14_UpdateFrame ==
    \A id \in Ids, upd \in UpdateRequests, commit \in CommitOutcomes :
        LET reply == update_instance(id, upd, commit)
            before == ById(instances, id)
            after == ById(reply.st.instances, id)
        IN  /\ reply.st.instances \ after = instances \ before
            /\ Cardinality(after) = Cardinality(before)
            /\ \A a \in after, b \in before :
                   \A f \in DOMAIN b : f \notin DOMAIN upd => a[f] = b[f]
            /\ reply.st.fs = fs
            /\ reply.st.containers = containers
            /\ reply.st.tasks = tasks
            /\ reply.st.sip_users = sip_users
            /\ reply.st.nextId = nextId

\* An instance was renamed by an update while its start was pending: it is
\* still "creating" and its start is still pending
C14_UpdatedInstance ==
    \E r \in instances, t \in tasks :
        /\ t.id = r.id
        /\ r.status = "creating"
        /\ r.config_path # config_dir(r.name)

\* The value the body supplies for column f is held by another instance
HeldByOther(id, upd, f) ==
    f \in DOMAIN upd /\ \E r \in instances : r.id # id /\ r[f] = upd[f]

\* C15: an update that would give the instance a name, a signaling port or a
\* management port of a different instance is rejected with a conflict error
\* and changes nothing; an update that supplies the instance's own current
\* name and ports is not a conflict.
C15_UpdateConflicts ==
    \A id \in Ids, upd \in UpdateRequests :
        ById(instances, id) # {} =>
            LET reply == update_instance(id, upd, "ok")
                own == CHOOSE x \in ById(instances, id) : TRUE
            IN  /\ (\E f \in {"name", "sip_port", "http_port"} : HeldByOther(id, upd, f))
                       => (reply.code = 400 /\ reply.st = Here)
                /\ (\A f \in DOMAIN upd : upd[f] = own[f])
                       => (reply.code = 200 /\ reply.st = Here)
\* Every request that changes the roster of an instance, with the outcome
\* of its write and of its reload, and its reply; the commit succeeds
RosterChanges ==
    {[id |-> id, write |-> write, reload |-> reload,
      reply |-> create_sip_user(Here, id, n, "ok", write, reload)] :
        id \in Ids, n \in Usernames, write \in WriteOutcomes, reload \in ReloadOutcomes}
    \cup
    {[id |-> c[1], write |-> c[4], reload |-> c[5],
      reply |-> update_sip_user(Here, c[1], c[2], c[3], "ok", c[4], c[5])] :
        c \in Ids \X UserKeys \X UserUpdates \X WriteOutcomes \X ReloadOutcomes}
    \cup
    {[id |-> id, write |-> write, reload |-> reload,
      reply |-> delete_sip_user(Here, id, key, "ok", write, reload)] :
        id \in Ids, key \in UserKeys, write \in WriteOutcomes, reload \in ReloadOutcomes}

\* The row of instance id in state st (the instance exists)
InstanceOf(st, id) == CHOOSE x \in ById(st.instances, id) : TRUE

\* The rendering of the roster of instance r in state st
Rendering(st, r) == Render(r.sip_port, ActiveUsers(st.sip_users, r.name))

\* The sip.conf of instance r exists and holds the sections of its roster
ArtifactCurrent(st, r) ==
    /\ sip_conf_path(r.config_path) \in DOMAIN st.sip_conf
    /\ st.sip_conf[sip_conf_path(r.config_path)] = Rendering(st, r).sections

\* C16: when an operation that changes the roster of an instance has
\* completed (a user added, updated or removed, or the test users seeded by
\* a create), the sip.conf of the instance is the rendering of its roster:
\* the preamble with the signaling port of the instance, then one section
\* for each active user of the instance and no other section.
C16_ArtifactIsRenderedRoster ==
    /\ \A c \in RosterChanges :
           c.reply.code = 200 =>
               /\ c.reply.written = Rendering(c.reply.st, InstanceOf(c.reply.st, c.id))
               /\ ArtifactCurrent(c.reply.st, InstanceOf(c.reply.st, c.id))
    /\ \A name \in Names, sip \in SipPorts, http \in HttpPorts :
           LET reply == create_instance_main(name, sip, http, TRUE, "none", 0)
           IN  reply.code = 200 => ArtifactCurrent(reply.st, reply.body)

\* C17: a roster change, its artifact written and the runtime available,
\* requests a reload of the workload exactly when the status of the instance
\* is "running"; for an instance that is "creating" or "error" none is
\* requested.
C17_ReloadIffRunning ==
    \A c \in RosterChanges :
        (c.reply.code = 200 /\ c.write = "ok" /\ c.reload # "unavailable") =>
            (c.reply.exec <=> InstanceOf(Here, c.id).status = "running")

\* C18: for every outcome of the reload (success, non-zero exit, timeout, no
\* running container, runtime unavailable) and of the write that precedes
\* it, a roster change answers as it does when both succeed, the user
\* record is committed as then, and no instance changes, its status included.
C18_ReloadNeverFailsRosterChange ==
    /\ \A id \in Ids, n \in Usernames, write \in WriteOutcomes, reload \in ReloadOutcomes :
           LET ok == create_sip_user(Here, id, n, "ok", "ok", "ok")
               reply == create_sip_user(Here, id, n, "ok", write, reload)
           IN  /\ reply.code = ok.code /\ reply.body = ok.body
               /\ reply.st.sip_users = ok.st.sip_users
               /\ reply.st.instances = instances
    /\ \A id \in Ids, key \in UserKeys, upd \in UserUpdates,
          write \in WriteOutcomes, reload \in ReloadOutcomes :
           LET ok == update_sip_user(Here, id, key, upd, "ok", "ok", "ok")
               reply == update_sip_user(Here, id, key, upd, "ok", write, reload)
           IN  /\ reply.code = ok.code /\ reply.body = ok.body
               /\ reply.st.sip_users = ok.st.sip_users
               /\ reply.st.instances = instances
    /\ \A id \in Ids, key \in UserKeys, write \in WriteOutcomes, reload \in ReloadOutcomes :
           LET ok == delete_sip_user(Here, id, key, "ok", "ok", "ok")
               reply == delete_sip_user(Here, id, key, "ok", write, reload)
           IN  /\ reply.code = ok.code /\ reply.detail = ok.detail
               /\ reply.st.sip_users = ok.st.sip_users
               /\ reply.st.instances = instances

\* A user was added to an instance that is not running: the user is stored
\* and the status is what it was
C18_UserAddedWithoutReload ==
    \E r \in instances, u \in sip_users :
        /\ u.instance_name = r.name
        /\ r.status = "error"
        /\ r.name \notin containers
        /\ sip_conf_path(r.config_path) \in DOMAIN sip_conf
        /\ sip_conf[sip_conf_path(r.config_path)] = <<"1001">>

Sections(st, r) == st.sip_conf[sip_conf_path(r.config_path)]

InSeq(x, seq) == \E i \in 1..Len(seq) : seq[i] = x

\* C19: the update of an active user to inactive removes the section of the
\* user from the regenerated sip.conf, while the record stays stored and is
\* still returned by the get and by the list of users; the update back to
\* active restores the section.
C19_DeactivationDropsSection ==
    \A id \in Ids, key \in UserKeys, reload \in ReloadOutcomes :
        (get_sip_user(Here, id, key).code = 200 /\ get_sip_user(Here, id, key).body.is_active) =>
            LET off == update_sip_user(Here, id, key, "is_active" :> FALSE, "ok", "ok", reload)
                on == update_sip_user(off.st, id, key, "is_active" :> TRUE, "ok", "ok", reload)
                r == InstanceOf(Here, id)
            IN  /\ off.code = 200
                /\ ~ InSeq(key[1], off.written.sections)
                /\ ~ InSeq(key[1], Sections(off.st, r))
                /\ get_sip_user(off.st, id, key).code = 200
                /\ get_sip_user(off.st, id, key).body = SIPUser(key[1], key[2], FALSE)
                /\ SIPUser(key[1], key[2], FALSE) \in get_sip_users(off.st, id).body
                /\ on.code = 200
                /\ InSeq(key[1], Sections(on.st, r))
                /\ on.st.sip_users = sip_users

\* A user is stored inactive and the sip.conf of its instance, regenerated,
\* holds the section of the other user only
C19_InactiveUserStored ==
    \E r \in instances :
        /\ SIPUser("1001", r.name, FALSE) \in sip_users
        /\ SIPUser("1002", r.name, TRUE) \in sip_users
        /\ sip_conf_path(r.config_path) \in DOMAIN sip_conf
        /\ Sections(Here, r) = <<"1002">>

UserTexts == [caller_id : FreeTexts, account_code : FreeTexts]

RECURSIVE Categories(_, _)
\* The sections Asterisk reads from `lines` after the sections `read`: a
\* section header opens a section, a comment is skipped, every other line
\* belongs to the section open at that point
Categories(lines, read) ==
    IF lines = <<>> THEN read
    ELSE LET l == Head(lines)
             n == Len(read)
         IN  Categories(Tail(lines),
                 IF l.kind = "section" THEN Append(read, [name |-> l.key, body |-> <<>>])
                 ELSE IF l.kind = "comment" THEN read
                 ELSE [read EXCEPT ![n].body = Append(@, l)])

\* The sections of the file whose user part is `lines`, [general] first
Parsed(lines) == Categories(lines, <<[name |-> "general", body |-> <<>>]>>)

SectionNames(parsed) == [i \in 1..Len(parsed) |-> parsed[i].name]

SectionsOf(parsed, name) == SelectSeq(parsed, LAMBDA c : c.name = name)

\* C21: whatever the display name and the account code of the users hold,
\* line breaks and "[...]" included, the rendered sip.conf has [general] and
\* exactly one section per active user, and the text of one user changes no
\* section but that user's own.
C21_FreeTextCannotAlterSections ==
    \A r \in instances :
        LET users == ActiveUsers(sip_users, r.name)
            expected == <<"general">> \o Render(r.sip_port, users).sections
        IN  \A texts \in [Usernames -> UserTexts] :
                LET parsed == Parsed(UserSections(UserOrder, users, texts))
                IN  /\ SectionNames(parsed) = expected
                    /\ \A n \in Usernames, text \in UserTexts :
                           LET other == Parsed(UserSections(UserOrder, users,
                                                            [texts EXCEPT ![n] = text]))
                           IN  \A m \in {"general"} \cup (Usernames \ {n}) :
                                   SectionsOf(other, m) = SectionsOf(parsed, m)

\* The namespace of instance b in state st: the paths at or below its
\* config_path, and the content of the files among them
Below(st, b) == {q \in st.fs : IsPrefix(b.config_path, q)}

Untouched(st, b) ==
    /\ Below(st, b) = Below(Here, b)
    /\ \A q \in DOMAIN sip_conf :
           IsPrefix(b.config_path, q) =>
               (q \in DOMAIN st.sip_conf /\ st.sip_conf[q] = sip_conf[q])

\* C22: an operation on behalf of instance a (the artifact generation of its
\* create, the regeneration of its sip.conf, the get and the update of a
\* configuration file of any name, its delete) reads, writes and removes
\* nothing in the namespace of a different stored instance b.
C22_NamespaceIsolation ==
    /\ \A a \in instances, b \in instances :
           a.id # b.id =>
               /\ \A config_type \in ConfigTypes, content \in RawContents,
                     write \in WriteOutcomes :
                      Untouched(update_config(Here, a.id, config_type, content, write).st, b)
               /\ \A config_type \in ConfigNames :
                      ~ IsPrefix(b.config_path, get_config(Here, a.id, config_type).read)
               /\ \A write \in WriteOutcomes, reload \in ReloadOutcomes :
                      Untouched(update_sip_config(Here, a.name, write, reload).st, b)
               /\ \A rm_config \in RmOutcomes, commit \in CommitOutcomes :
                      Untouched(delete_instance(a.id, "ok", rm_config, "ok", commit).st, b)
    /\ \A b \in instances, name \in Names, sip \in SipPorts, http \in HttpPorts :
           LET reply == create_instance_main(name, sip, http, FALSE, "none", 0)
           IN  reply.code = 200 => Untouched(reply.st, b)

\* C23: no two stored users have the same username and instance name, also
\* when add-user requests meet between their lookup and their commit; an
\* add-user request whose username is stored for the instance is refused,
\* at its lookup (400) or at its commit (500), and leaves the users and
\* every file as they were.
C23_UsernamesUniquePerInstance ==
    /\ \A u \in sip_users, v \in sip_users : UserKey(u) = UserKey(v) => u = v
    /\ \A id \in Ids, username \in Usernames, write \in WriteOutcomes,
          reload \in ReloadOutcomes :
           create_sip_user_check(Here, id, username) = 400 =>
               LET reply == create_sip_user(Here, id, username, "ok", write, reload)
               IN  reply.code = 400 /\ reply.st = Here
    /\ \A req \in inflight, write \in WriteOutcomes, reload \in ReloadOutcomes :
           (/\ req.op = "add_user" /\ req.pc = "checked"
            /\ \E u \in sip_users : UserKey(u) = <<req.username, req.name>>) =>
               LET reply == create_sip_user_commit(Here, req, "ok", write, reload)
               IN  reply.code = 500 /\ reply.st = Here

\* Two add-user requests for the same username of the same instance have
\* met: both passed the lookup, one has stored the user, the other was
\* refused at its commit
C23_ConcurrentAddRefused ==
    \E a \in inflight, b \in inflight :
        /\ a.op = "add_user" /\ b.op = "add_user"
        /\ a.username = b.username /\ a.name = b.name
        /\ a.pc = "done" /\ a.code = 200
        /\ b.pc = "done" /\ b.code = 500
        /\ \E u \in sip_users : UserKey(u) = <<a.username, a.name>>

\* C24: a reload asked for an instance whose workload is not up, the runtime
\* being there, ends as a normal outcome that tells the failure, not as a
\* server fault, and changes no instance, no user and no file: the reload
\* route answers below 500, and the reload of a roster change ends without
\* a failure.
C24_ReloadOfStoppedWorkloadIsReported ==
    \A r \in instances :
        r.name \notin containers =>
            /\ \A run \in ExecOutcomes \ {"unavailable"} :
                   LET reply == reload_instance(Here, r.id, run)
                   IN  reply.code < 500 /\ reply.st = Here
            /\ \A reload \in ReloadOutcomes \ {"unavailable"} :
                   reload_asterisk_sip(Here, r.name, reload) = [exec |-> FALSE, failed |-> {}]

\* What a create that answered `reply` for `name` has done to table sip_users
SeedFrame(reply, name, create_test_users) ==
    LET new == reply.st.sip_users \ sip_users
    IN  /\ sip_users \subseteq reply.st.sip_users
        /\ (reply.code = 200 /\ create_test_users) =>
               /\ new = {SIPUser("1001", name, TRUE), SIPUser("1002", name, TRUE)}
               /\ reply.body.name = name
        /\ (reply.code # 200 \/ ~ create_test_users) => new = {}

\* C25: a create that succeeds with the test-users option adds exactly two
\* users, 1001 and 1002, both active and owned by the new instance; a create
\* without the option, and a create that fails, add none; no create changes
\* or removes a stored user.
C25_SeedUsersFrame ==
    /\ \A name \in Names, sip \in SipPorts, http \in HttpPorts,
          create_test_users \in BOOLEAN, fault \in CreateFaults :
           \A failAt \in FailAts(fault, MainConfigs) :
               SeedFrame(create_instance_main(name, sip, http, create_test_users,
                                              fault, failAt),
                         name, create_test_users)
    /\ \A name \in Names, sip \in SipPorts, http \in HttpPorts, rtp \in RtpRanges,
          create_test_users \in BOOLEAN, fault \in CreateFaults :
           \A failAt \in FailAts(fault, RoutesConfigs) :
               SeedFrame(ProvisionRoutes(name, sip, http, rtp[1], rtp[2],
                                         create_test_users, fault, failAt),
                         name, create_test_users)

\* One instance was created with the test users and one without
C25_SeededAndPlain ==
    \E a \in instances, b \in instances :
        /\ a.id # b.id
        /\ {u \in sip_users : u.instance_name = a.name}
               = {SIPUser("1001", a.name, TRUE), SIPUser("1002", a.name, TRUE)}
        /\ {u \in sip_users : u.instance_name = b.name} = {}

\* C26: for a stored instance, the update of a configuration file followed
\* by the get of the same file returns exactly the content that was
\* written; the get of a file that does not exist answers 404; for an
\* instance that is not stored both answer 404, and nothing is read or
\* written.
C26_ConfigRoundTrip ==
    /\ \A r \in instances, n \in ConfigNames, content \in RawContents :
           LET put == update_config(Here, r.id, <<n>>, content, "ok")
               got == get_config(put.st, r.id, n)
           IN  put.code = 200 => (got.code = 200 /\ got.body = content)
    /\ \A r \in instances, n \in ConfigNames :
           ~ exists(fs, r.config_path \o <<n \o ".conf">>) =>
               get_config(Here, r.id, n).code = 404
    /\ \A id \in Ids, config_type \in ConfigTypes, content \in RawContents,
          write \in WriteOutcomes :
           ById(instances, id) = {} =>
               /\ update_config(Here, id, config_type, content, write).code = 404
               /\ update_config(Here, id, config_type, content, write).st = Here
               /\ \A n \in ConfigNames :
                      /\ get_config(Here, id, n).code = 404
                      /\ get_config(Here, id, n).read = <<>>

\* Two creates propose the same name or a common port
Conflicting(a, b) ==
    a.name = b.name \/ a.sip_port = b.sip_port \/ a.http_port = b.http_port

\* C27: of two creates that run at the same time and propose the same name,
\* signaling port or management port, at most one commits its record,
\* however their lookups, their file writes and their commits interleave:
\* no two stored instances share a name or a port, and the commit of a
\* create that collides with a stored instance fails and stores nothing.
C27_OneOfConflictingCreatesCommits ==
    /\ \A a \in inflight, b \in inflight :
           (a.op = "create" /\ b.op = "create" /\ a.n # b.n /\ Conflicting(a, b)) =>
               ~ (a.code = 200 /\ b.code = 200)
    /\ \A r \in instances, q \in instances :
           r # q => (r.id # q.id /\ ~ Conflicting(r, q))
    /\ \A req \in inflight :
           (/\ req.op = "create" /\ req.pc = "written"
            /\ \E r \in instances : Conflicting(r, req)) =>
               LET reply == create_instance_commit(Here, req, "none")
               IN  reply.code = 500 /\ reply.st.instances = instances

\* Two colliding creates both passed their lookups; one has committed, the
\* other was refused
C27_LoserRefusedAtCommit ==
    \E a \in inflight, b \in inflight :
        /\ a.op = "create" /\ b.op = "create" /\ a.n # b.n
        /\ Conflicting(a, b)
        /\ a.pc = "done" /\ a.code = 200
        /\ b.pc = "done" /\ b.code = 500
        /\ \E r \in instances : r.name = a.name /\ r.sip_port = a.sip_port

\* C29: the cleanup of a create that fails, at the write of its files or at
\* its commit, removes and changes nothing in the namespace of an instance
\* whose record is stored; the loser of two creates of one name leaves the
\* directory and the files of the winner.
C29_FailedCreateSparesStoredNamespaces ==
    \A req \in inflight :
        req.op = "create" =>
            /\ req.pc = "validated" =>
                   \A fault \in {"none", "makedirs", "write"} :
                   \A failAt \in FailAts(fault, MainConfigs) :
                       LET reply == create_instance_write(Here, req, fault, failAt)
                       IN  reply.code >= 400 =>
                               \A r \in instances : Untouched(reply.st, r)
            /\ req.pc = "written" =>
                   \A fault \in {"none", "commit", "seed_commit"} :
                       (fault = "seed_commit" => req.create_test_users) =>
                           LET reply == create_instance_commit(Here, req, fault)
                           IN  reply.code >= 400 =>
                                   \A r \in instances : Untouched(reply.st, r)

\* C30: in every state reached by creates, updates (a rename included) and
\* deletes, no two stored instances have the same namespace path.
C30_NamespacePathsDistinct ==
    \A r \in instances, q \in instances :
        r # q => r.config_path # q.config_path

\* The start or the delete `req` has run to its end
Finished(req) == req.pc \in {"done", "raised"}

\* C28: however the steps of a delete of an instance and of the background
\* start of that instance interleave, once the start has ended and the delete
\* has answered success nothing of the instance remains: no record, no
\* namespace directory, no running workload; the start has neither stored
\* the record again nor written a status for it.
C28_DeleteAndStartConverge ==
    \A s \in inflight, d \in inflight :
        (/\ s.op = "start" /\ d.op = "delete" /\ s.id = d.id
         /\ Finished(s) /\ d.pc = "done" /\ d.code = 200) =>
            /\ ById(instances, s.id) = {}
            /\ ~ exists(fs, s.config_path)
            /\ s.name \notin containers

\* The users a roster lists for the instance named `name`
UsersNamed(users, name) == {u \in users : u.instance_name = name}

\* C31: the create of an instance under a name and ports that no stored
\* instance holds succeeds, whatever users an instance deleted or renamed
\* before has left behind, and the roster of the new instance holds its seed
\* users, when they were asked for, and no other user.
C31_NewInstanceStartsWithOwnUsers ==
    \A name \in Names, sip \in SipPorts, http \in HttpPorts,
       create_test_users \in BOOLEAN :
        (~ NameTaken(name) /\ ~ PortsInUseMain(sip, http)) =>
            LET reply == create_instance_main(name, sip, http, create_test_users,
                                              "none", 0)
            IN  /\ reply.code = 200
                /\ UsersNamed(reply.st.sip_users, name) =
                       IF create_test_users THEN SeedUsers(name) ELSE {}

\* C32: when two adds of a user to one instance run at the same time, then
\* however their commits, the roster queries of their regenerations and
\* their writes of sip.conf interleave, once both have answered success the
\* sip.conf of the instance has a section for every active user of the
\* instance.
C32_ArtifactHoldsFinalRoster ==
    (\A req \in inflight : req.op = "add_user" /\ req.pc = "done" /\ req.code = 200) =>
        \A r \in instances :
            (\E req \in inflight : req.id = r.id) =>
                /\ sip_conf_path(r.config_path) \in DOMAIN sip_conf
                /\ \A u \in ActiveUsers(sip_users, r.name) :
                       InSeq(u.username, Sections(Here, r))

\* Request number n waits for its in-container command; it has answered
ReloadPending(n) == \E req \in inflight : req.n = n /\ req.pc = "exec"
ReloadAnswered(n) == \E req \in inflight : req.n = n /\ req.pc = "done"

\* C33: every request that has launched a reload command in the container,
\* on the roster-change path and on the explicit reload route, is answered,
\* also when the command does not return by itself.
C33_ReloadTerminates ==
    \A n \in 1..MaxInflight : ReloadPending(n) ~> ReloadAnswered(n)

Lifecycle == {"creating", "running", "error"}

\* C35: in every state that creates, updates and background starts reach,
\* the status of each stored instance is "creating", "running" or "error".
C35_StatusIsLifecycleState ==
    \A r \in instances : r.status \in Lifecycle

\* The user `key` is stored and its instance_name is the name of instance id
OwnedBy(id, key) ==
    \E r \in instances, u \in sip_users :
        r.id = id /\ UserKey(u) = key /\ u.instance_name = r.name

\* The usernames and owners of the stored users
Keys(users) == {UserKey(u) : u \in users}

\* C36: a get, an update or a delete of a user through instance id succeeds
\* only when the instance_name of the user is the name of that instance;
\* through another instance, or through an instance that does not exist, each
\* answers 404 and changes no user, no file and nothing else; an update that
\* succeeds changes neither the username nor the instance_name of any user.
C36_UserAddressedThroughOwner ==
    \A id \in Ids, key \in UserKeys, upd \in UserUpdates,
       commit \in CommitOutcomes, write \in WriteOutcomes, reload \in ReloadOutcomes :
        LET got == get_sip_user(Here, id, key)
            put == update_sip_user(Here, id, key, upd, commit, write, reload)
            del == delete_sip_user(Here, id, key, commit, write, reload)
        IN  /\ got.code = 200 => (OwnedBy(id, key) /\ UserKey(got.body) = key)
            /\ put.code = 200 => (OwnedBy(id, key) /\ UserKey(put.body) = key)
            /\ del.code = 200 => OwnedBy(id, key)
            /\ ~ OwnedBy(id, key) =>
                   /\ got.code = 404 /\ put.code = 404 /\ del.code = 404
                   /\ put.st = Here /\ del.st = Here
                   /\ put.written = <<>> /\ del.written = <<>>
            /\ Keys(put.st.sip_users) = Keys(sip_users)
            /\ Keys(del.st.sip_users) \subseteq Keys(sip_users)

\* Two instances are stored; a user of one is found through its owner and
\* not found through the other
C36_UserOfOtherInstance ==
    \E a \in instances, b \in instances, u \in sip_users :
        /\ a.id # b.id
        /\ u.instance_name = a.name
        /\ get_sip_user(Here, a.id, UserKey(u)).code = 200
        /\ get_sip_user(Here, b.id, UserKey(u)).detail = "User not found"
        /\ update_sip_user(Here, b.id, UserKey(u), [is_active |-> FALSE],
                           "ok", "ok", "ok").code = 404

====
